---- MODULE Spec2Model ----
(***************************************************************************)
(* Model of the library synchronization script:                            *)
(*   module/database.py  BookDocument, DatabaseConnector (the store sink)  *)
(*   __main__.py         Library (client session, page walker, run loop)   *)
(*   helper/models.py    BookData (the run summary)                        *)
(*                                                                         *)
(* A Python str is a sequence of one-character strings; Python's None is   *)
(* the one-element sequence None, whose element is no character.           *)
(***************************************************************************)
EXTENDS Integers, Sequences, FiniteSets, TLC

VARIABLES
    store,          \* the "books" collection: a set of BookDocument [url, title]
    call,           \* the last DatabaseConnector load call: input, outcomes, result
    pc,             \* where the run (main / Library.main) stands
    session,        \* Library.session: "none", "open" or "closed"
    total_books,    \* <<n>>, or <<>> for None
    total_pages,    \* <<n>>, or <<>> for None
    page,           \* the loop variable of `for page in range(1, total_pages + 1)`
    data,           \* data['books'] of the listing page being walked
    idx,            \* position of `book` in data['books']
    book_counter,
    book_errors,
    book_success,
    all_books,      \* all_books.books
    dump,           \* what was written to books-dump.json, one entry per write
    attempted,      \* the listing pages requested so far, in order
    failed_pages,   \* the listing pages whose request or parse raised
    detail_fetches, \* the number of detail pages requested
    db_totals,      \* the db_result statistics of the run, summed
    last,           \* what the last walked book came to, and the counters before it
    interrupted,    \* the run was cancelled (KeyboardInterrupt)
    iterating,      \* the page loop was entered
    store0,         \* the store when the run started
    on_scenario     \* the run has so far been the two-page scenario of the spec

----------------------------------------------------------------------------
(* Python strings *)

None == <<"None">>

Whitespace == {" ", "\t"}

\* str.lower() on the characters the model uses
LowerChar(c) ==
    CASE c = "A" -> "a"
      [] c = "B" -> "b"
      [] OTHER -> c

Lower(s) == [i \in 1..Len(s) |-> LowerChar(s[i])]

RECURSIVE LStrip(_)
LStrip(s) ==
    IF s # <<>> /\ Head(s) \in Whitespace THEN LStrip(Tail(s)) ELSE s

RECURSIVE RStrip(_)
RStrip(s) ==
    IF s # <<>> /\ s[Len(s)] \in Whitespace
    THEN RStrip(SubSeq(s, 1, Len(s) - 1))
    ELSE s

\* str.strip()
Strip(s) == RStrip(LStrip(s))

\* str.split(): the maximal runs of non-whitespace characters, in order
RECURSIVE SplitFrom(_, _, _)
SplitFrom(s, word, words) ==
    IF s = <<>>
    THEN IF word = <<>> THEN words ELSE Append(words, word)
    ELSE IF Head(s) \in Whitespace
         THEN SplitFrom(Tail(s), <<>>,
                        IF word = <<>> THEN words ELSE Append(words, word))
         ELSE SplitFrom(Tail(s), Append(word, Head(s)), words)

Split(s) == SplitFrom(s, <<>>, <<>>)

\* ' '.join(words)
RECURSIVE Join(_)
Join(words) ==
    IF words = <<>> THEN <<>>
    ELSE IF Len(words) = 1 THEN words[1]
    ELSE words[1] \o <<" ">> \o Join(Tail(words))

\* ' '.join(title.lower().split())
Normalize(title) == Join(Split(Lower(title)))

----------------------------------------------------------------------------
(* The store: BookDocument and its declared constraints *)

\* save() of a BookDocument whose url index is not unique
BookDocumentSaveUrlNotUnique(docs, doc) ==
    IF doc.url = None \/ doc.title = None
    THEN [ok |-> FALSE, error |-> "ValidationError", docs |-> docs]
    ELSE IF \E d \in docs : d.title = doc.title
    THEN [ok |-> FALSE, error |-> "NotUniqueError", docs |-> docs]
    ELSE [ok |-> TRUE, error |-> "", docs |-> docs \cup {doc}]

\* BookDocument: url required and unique; title required, unique sparse index.
\* save() raises ValidationError for a required field that is None and
\* NotUniqueError when a unique index already holds the value.
BookDocumentSave(docs, doc) ==
    IF doc.url = None \/ doc.title = None
    THEN [ok |-> FALSE, error |-> "ValidationError", docs |-> docs]
    ELSE IF \E d \in docs : d.url = doc.url
    THEN [ok |-> FALSE, error |-> "NotUniqueError", docs |-> docs]
    ELSE IF \E d \in docs : d.title = doc.title
    THEN [ok |-> FALSE, error |-> "NotUniqueError", docs |-> docs]
    ELSE [ok |-> TRUE, error |-> "", docs |-> docs \cup {doc}]

----------------------------------------------------------------------------
(* DatabaseConnector *)

\* _is_duplicate_book without the lookup by url
IsDuplicateBookNoUrl(docs, book_data) ==
    IF book_data.url = None \/ book_data.title = None
    THEN [raised |-> TRUE, dup |-> FALSE, reason |-> "AttributeError"]
    ELSE LET url   == Strip(book_data.url)
             title == Strip(book_data.title)
         IN IF url = <<>> /\ title = <<>>
            THEN [raised |-> FALSE, dup |-> TRUE, reason |-> "missing"]
            ELSE IF title # <<>> /\ (\E d \in docs : d.title = title)
            THEN [raised |-> FALSE, dup |-> TRUE, reason |-> "title"]
            ELSE IF title # <<>>
                    /\ \E d \in docs :
                          /\ d.title # <<>>
                          /\ d.title # title
                          /\ Normalize(d.title) = Normalize(title)
            THEN [raised |-> FALSE, dup |-> TRUE, reason |-> "normalized"]
            ELSE [raised |-> FALSE, dup |-> FALSE, reason |-> ""]

\* _is_duplicate_book without the scan of normalized titles
IsDuplicateBookExactOnly(docs, book_data) ==
    IF book_data.url = None \/ book_data.title = None
    THEN [raised |-> TRUE, dup |-> FALSE, reason |-> "AttributeError"]
    ELSE LET url   == Strip(book_data.url)
             title == Strip(book_data.title)
         IN IF url = <<>> /\ title = <<>>
            THEN [raised |-> FALSE, dup |-> TRUE, reason |-> "missing"]
            ELSE IF url # <<>> /\ (\E d \in docs : d.url = url)
            THEN [raised |-> FALSE, dup |-> TRUE, reason |-> "url"]
            ELSE IF title # <<>> /\ (\E d \in docs : d.title = title)
            THEN [raised |-> FALSE, dup |-> TRUE, reason |-> "title"]
            ELSE [raised |-> FALSE, dup |-> FALSE, reason |-> ""]

\* _is_duplicate_book with the missing-keys test after the lookups
IsDuplicateBookMissingLast(docs, book_data) ==
    IF book_data.url = None \/ book_data.title = None
    THEN [raised |-> TRUE, dup |-> FALSE, reason |-> "AttributeError"]
    ELSE LET url   == Strip(book_data.url)
             title == Strip(book_data.title)
         IN IF \E d \in docs : d.url = url
            THEN [raised |-> FALSE, dup |-> TRUE, reason |-> "url"]
            ELSE IF \E d \in docs : d.title = title
            THEN [raised |-> FALSE, dup |-> TRUE, reason |-> "title"]
            ELSE IF url = <<>> /\ title = <<>>
            THEN [raised |-> FALSE, dup |-> TRUE, reason |-> "missing"]
            ELSE IF title # <<>>
                    /\ \E d \in docs :
                          /\ d.title # <<>>
                          /\ d.title # title
                          /\ Normalize(d.title) = Normalize(title)
            THEN [raised |-> FALSE, dup |-> TRUE, reason |-> "normalized"]
            ELSE [raised |-> FALSE, dup |-> FALSE, reason |-> ""]

\* _is_duplicate_book whose scan compares titles without lowercasing them
IsDuplicateBookScanNoLower(docs, book_data) ==
    IF book_data.url = None \/ book_data.title = None
    THEN [raised |-> TRUE, dup |-> FALSE, reason |-> "AttributeError"]
    ELSE LET url   == Strip(book_data.url)
             title == Strip(book_data.title)
         IN IF url = <<>> /\ title = <<>>
            THEN [raised |-> FALSE, dup |-> TRUE, reason |-> "missing"]
            ELSE IF url # <<>> /\ (\E d \in docs : d.url = url)
            THEN [raised |-> FALSE, dup |-> TRUE, reason |-> "url"]
            ELSE IF title # <<>> /\ (\E d \in docs : d.title = title)
            THEN [raised |-> FALSE, dup |-> TRUE, reason |-> "title"]
            ELSE IF title # <<>>
                    /\ \E d \in docs :
                          /\ d.title # <<>>
                          /\ d.title # title
                          /\ Join(Split(d.title)) = Join(Split(title))
            THEN [raised |-> FALSE, dup |-> TRUE, reason |-> "normalized"]
            ELSE [raised |-> FALSE, dup |-> FALSE, reason |-> ""]

\* _is_duplicate_book: <<is_duplicate, reason>>, or the AttributeError that
\* .strip() raises on None.  The reason is the kind of the code's message.
IsDuplicateBook(docs, book_data) ==
    IF book_data.url = None \/ book_data.title = None
    THEN [raised |-> TRUE, dup |-> FALSE, reason |-> "AttributeError"]
    ELSE LET url   == Strip(book_data.url)
             title == Strip(book_data.title)
         IN IF url = <<>> /\ title = <<>>
            THEN [raised |-> FALSE, dup |-> TRUE, reason |-> "missing"]
            ELSE IF url # <<>> /\ (\E d \in docs : d.url = url)
            THEN [raised |-> FALSE, dup |-> TRUE, reason |-> "url"]
            ELSE IF title # <<>> /\ (\E d \in docs : d.title = title)
            THEN [raised |-> FALSE, dup |-> TRUE, reason |-> "title"]
            ELSE IF title # <<>>
                    /\ \E d \in docs :
                          /\ d.title # <<>>
                          /\ d.title # title
                          /\ Normalize(d.title) = Normalize(title)
            THEN [raised |-> FALSE, dup |-> TRUE, reason |-> "normalized"]
            ELSE [raised |-> FALSE, dup |-> FALSE, reason |-> ""]

\* One iteration of the loading loop (the body of `for book_data in books_data`)
LoadOne(docs, book_data) ==
    LET chk == IsDuplicateBook(docs, book_data)
    IN IF chk.raised
       THEN [docs |-> docs, outcome |-> "failed", reason |-> chk.reason]
       ELSE IF chk.dup
       THEN [docs |-> docs, outcome |-> "skipped", reason |-> chk.reason]
       ELSE LET saved == BookDocumentSave(docs,
                             [url |-> book_data.url, title |-> book_data.title])
            IN IF saved.ok
               THEN [docs |-> saved.docs, outcome |-> "inserted", reason |-> ""]
               ELSE [docs |-> docs, outcome |-> "failed", reason |-> saved.error]

\* The loading loop over the whole list: the store and the outcomes, in order
RECURSIVE LoadLoop(_, _, _)
LoadLoop(docs, books_data, outcomes) ==
    IF books_data = <<>>
    THEN [docs |-> docs, outcomes |-> outcomes]
    ELSE LET one == LoadOne(docs, Head(books_data))
         IN LoadLoop(one.docs, Tail(books_data),
                     Append(outcomes,
                            [outcome |-> one.outcome, reason |-> one.reason]))

CountOutcome(outcomes, kind) ==
    Cardinality({i \in 1..Len(outcomes) : outcomes[i].outcome = kind})

\* load_books_from_data: the store after the call, the per-book outcomes and
\* the returned statistics
LoadBooksFromData(docs, books_data) ==
    IF books_data = <<>>
    THEN [docs |-> docs, outcomes |-> <<>>,
          result |-> [loaded |-> 0, errors |-> 0, skipped |-> 0]]
    ELSE LET done == LoadLoop(docs, books_data, <<>>)
         IN [docs |-> done.docs, outcomes |-> done.outcomes,
             result |-> [loaded |-> CountOutcome(done.outcomes, "inserted"),
                         errors |-> CountOutcome(done.outcomes, "failed"),
                         skipped |-> CountOutcome(done.outcomes, "skipped"),
                         total_processed |-> Len(books_data)]]

\* load_books_from_json: a missing or malformed file is one error; otherwise
\* the file's "books" list is loaded by the same loop
LoadBooksFromJson(docs, file) ==
    IF file.state # "ok"
    THEN [docs |-> docs, outcomes |-> <<>>,
          result |-> [loaded |-> 0, errors |-> 1, skipped |-> 0]]
    ELSE LoadBooksFromData(docs, file.books)

----------------------------------------------------------------------------
(* Inputs of the sink *)

MaxBatch == 2

Urls == { <<>>, <<"u">>, <<" ", "u">>, <<"v">> }

Titles == { <<>>, <<" ">>, <<"a", " ", "b">>, <<"a", " ", "b", " ">>,
            <<" ", "A", "\t", " ", "b", " ">>, None }

BookRecords == [url : Urls, title : Titles]

RECURSIVE SeqsUpTo(_, _)
SeqsUpTo(S, n) ==
    IF n = 0 THEN { <<>> }
    ELSE LET shorter == SeqsUpTo(S, n - 1)
         IN shorter \cup { Append(s, x) : s \in {t \in shorter : Len(t) = n - 1}, x \in S }

\* The records that longer lists are built from: a plain record, one with the
\* same title up to case and whitespace, one with no keys
BatchRecords ==
    { [url |-> <<"u">>, title |-> <<"a", " ", "b">>],
      [url |-> <<"v">>, title |-> <<" ", "A", "\t", " ", "b", " ">>],
      [url |-> <<>>, title |-> <<>>] }

\* Every one-record list, and the lists of up to MaxBatch of the BatchRecords
Batches ==
    { <<r>> : r \in BookRecords } \cup SeqsUpTo(BatchRecords, MaxBatch)

JsonFiles ==
    { [state |-> "missing", books |-> <<>>], [state |-> "malformed", books |-> <<>>] }
    \cup { [state |-> "ok", books |-> b] : b \in SeqsUpTo(BatchRecords, MaxBatch) }

NoCall ==
    [op |-> "none", books |-> <<>>, outcomes |-> <<>>,
     result |-> [loaded |-> 0, errors |-> 0, skipped |-> 0],
     before |-> {}, repeat |-> FALSE, first |-> <<>>]

CallRecord(op, books_data, done, before) ==
    [op |-> op, books |-> books_data, outcomes |-> done.outcomes,
     result |-> done.result, before |-> before,
     repeat |-> (call.op = op /\ call.books = books_data),
     first |-> IF call.op = op /\ call.books = books_data
               THEN call.outcomes ELSE <<>>]

runVars ==
    <<pc, session, total_books, total_pages, page, data, idx, book_counter,
      book_errors, book_success, all_books, dump, attempted, failed_pages,
      detail_fetches, db_totals, last, interrupted, iterating, store0,
      on_scenario>>

vars == <<store, call, runVars>>

NoInt == <<>>

NoBook == [kind |-> "none", errors |-> 0, success |-> 0]

\* The run's variables before Library() is entered
RunIdle ==
    /\ pc = "Init"
    /\ session = "none"
    /\ total_books = NoInt
    /\ total_pages = NoInt
    /\ page = 0
    /\ data = <<>>
    /\ idx = 0
    /\ book_counter = 0
    /\ book_errors = 0
    /\ book_success = 0
    /\ all_books = <<>>
    /\ dump = <<>>
    /\ attempted = <<>>
    /\ failed_pages = {}
    /\ detail_fetches = 0
    /\ db_totals = [loaded |-> 0, errors |-> 0, skipped |-> 0]
    /\ last = NoBook
    /\ interrupted = FALSE
    /\ iterating = FALSE

SinkInit ==
    /\ store = {}
    /\ call = NoCall
    /\ RunIdle
    /\ store0 = {}
    /\ on_scenario = FALSE

CallLoadBooksFromData(books_data) ==
    \E done \in {LoadBooksFromData(store, books_data)} :
       /\ store' = done.docs
       /\ call' = CallRecord("data", books_data, done, store)
       /\ UNCHANGED runVars

CallLoadBooksFromJson(file) ==
    \E done \in {LoadBooksFromJson(store, file)} :
       /\ store' = done.docs
       /\ call' = CallRecord("json", file.books, done, store)
       /\ UNCHANGED runVars

SinkNext ==
    \/ \E books_data \in Batches : CallLoadBooksFromData(books_data)
    \/ \E file \in JsonFiles : CallLoadBooksFromJson(file)

SpecSink == SinkInit /\ [][SinkNext]_vars

----------------------------------------------------------------------------
(* Claims about the sink (checked under SpecSink) *)

\* The last call was load_books_from_data([r]): insertIfNew(r)
SingleInsert == call.op = "data" /\ Len(call.books) = 1

IsBlank(s) == s # None /\ Strip(s) = <<>>

StoredWithUrl(url) == {d \in store : d.url = url}

\* C1 as stated: for every record r and every store, a second insertIfNew(r)
\* in a row leaves exactly one stored record with r's url and is skipped
\* with reason "duplicate url".
C1_Original ==
    (SingleInsert /\ call.repeat) =>
        /\ Cardinality(StoredWithUrl(call.books[1].url)) = 1
        /\ call.outcomes[1] = [outcome |-> "skipped", reason |-> "url"]

\* C1 (amended): when the first insertIfNew(r) inserted r, the second call in
\* a row with the same r does not insert and leaves the store unchanged, with
\* exactly one stored record with r's url; its outcome is skipped with reason
\* "duplicate url" when r's url is non-empty with no surrounding whitespace.
C1_SecondInsertIsSkipped ==
    (SingleInsert /\ call.repeat /\ call.first[1].outcome = "inserted") =>
        LET r == call.books[1]
        IN /\ store = call.before
           /\ Cardinality(StoredWithUrl(r.url)) = 1
           /\ call.outcomes[1].outcome # "inserted"
           /\ (r.url # <<>> /\ Strip(r.url) = r.url) =>
                  call.outcomes[1] = [outcome |-> "skipped", reason |-> "url"]

C1_Witness ==
    /\ SingleInsert /\ call.repeat
    /\ call.first[1].outcome = "inserted"
    /\ call.outcomes[1] = [outcome |-> "skipped", reason |-> "url"]
    /\ call.books[1].title # <<>>

\* A stored record whose title differs from r's only in case and whitespace
TitleVariantsOf(r, docs) ==
    {d \in docs : /\ d.url # r.url
                  /\ d.title # r.title
                  /\ Normalize(d.title) = Normalize(r.title)}

\* C2 as stated: after a record with title T was inserted, inserting a record
\* with a different url whose title differs from T only in case and in
\* leading, trailing or repeated whitespace is skipped with reason "duplicate
\* normalized title" and leaves the store unchanged.  (Stated for the cases
\* that favour it: a title that is not blank, a url no stored record has.)
C2_Original ==
    (/\ SingleInsert
     /\ call.books[1].title # None
     /\ ~IsBlank(call.books[1].title)
     /\ TitleVariantsOf(call.books[1], call.before) # {}
     /\ \A d \in call.before : d.url # Strip(call.books[1].url)) =>
        /\ call.outcomes[1] = [outcome |-> "skipped", reason |-> "normalized"]
        /\ store = call.before

\* C2 (amended): such a record, its title not blank and its trimmed url the
\* url of no stored record, is skipped and the store is left unchanged; the
\* reason is "duplicate normalized title" unless the trimmed title equals a
\* stored title exactly, and then it is "duplicate title".
C2_NormalizedTitleIsSkipped ==
    (/\ SingleInsert
     /\ call.books[1].title # None
     /\ TitleVariantsOf(call.books[1], call.before) # {}
     /\ ~IsBlank(call.books[1].title)
     /\ \A d \in call.before : d.url # Strip(call.books[1].url)) =>
        /\ call.outcomes[1].outcome = "skipped"
        /\ call.outcomes[1].reason =
              IF \E d \in call.before : d.title = Strip(call.books[1].title)
              THEN "title" ELSE "normalized"
        /\ store = call.before

C2_Witness ==
    /\ SingleInsert
    /\ call.books[1].title = <<" ", "A", "\t", " ", "b", " ">>
    /\ \E d \in call.before : d.title = <<"a", " ", "b">> /\ d.url # call.books[1].url
    /\ call.outcomes[1] = [outcome |-> "skipped", reason |-> "normalized"]
    /\ store = call.before

\* C3 as stated: no two stored records have the same url, and no two have
\* titles that are equal after lowercasing and collapsing whitespace.
C3_Original ==
    \A d1, d2 \in store :
        d1 # d2 => /\ d1.url # d2.url
                   /\ Normalize(d1.title) # Normalize(d2.title)

\* C3 (amended): no two stored records have the same url, and no two have
\* titles equal after lowercasing and collapsing whitespace unless both
\* titles are blank (empty after trimming).
C3_NoDuplicatesStored ==
    \A d1, d2 \in store :
        d1 # d2 => /\ d1.url # d2.url
                   /\ (Normalize(d1.title) = Normalize(d2.title)) =>
                          (IsBlank(d1.title) /\ IsBlank(d2.title))

C3_Witness ==
    /\ Cardinality(store) >= 3
    /\ \E d \in store : ~IsBlank(d.title)
    /\ \E i \in 1..Len(call.outcomes) : call.outcomes[i].reason = "normalized"

\* C10: a record whose url and title are both empty after trimming is never
\* inserted: it is skipped with the reason "missing key fields" whatever the
\* store holds, and a call with only that record leaves the store unchanged.
C10_MissingKeysSkipped ==
    /\ \A i \in 1..Len(call.outcomes) :
          (IsBlank(call.books[i].url) /\ IsBlank(call.books[i].title)) =>
              call.outcomes[i] = [outcome |-> "skipped", reason |-> "missing"]
    /\ \A d \in store : ~(IsBlank(d.url) /\ IsBlank(d.title))
    /\ (/\ call.op # "none" /\ Len(call.books) = 1
        /\ IsBlank(call.books[1].url) /\ IsBlank(call.books[1].title)) =>
           store = call.before

\* such a record arrives while the store holds its url and its title
C10_Witness ==
    /\ SingleInsert
    /\ call.books[1] = [url |-> <<>>, title |-> <<>>]
    /\ \E d \in call.before : d.url = <<>>
    /\ \E d \in call.before : d.title = <<>>
    /\ call.outcomes[1] = [outcome |-> "skipped", reason |-> "missing"]
    /\ store = call.before

\* The lookup that would stand in for the title check: some stored record
\* has the same normalized title
NormalizedTitleLookup(docs, title) ==
    \E d \in docs : Normalize(d.title) = Normalize(title)

\* The sink's decision with the title check (exact lookup, then scan)
\* replaced by that lookup
IndexedIsDuplicate(docs, book_data) ==
    LET url   == Strip(book_data.url)
        title == Strip(book_data.title)
    IN \/ url = <<>> /\ title = <<>>
       \/ url # <<>> /\ (\E d \in docs : d.url = url)
       \/ NormalizedTitleLookup(docs, title)

\* The same, the lookup made only for a title that is not empty
IndexedIsDuplicateOfTitle(docs, book_data) ==
    LET url   == Strip(book_data.url)
        title == Strip(book_data.title)
    IN \/ url = <<>> /\ title = <<>>
       \/ url # <<>> /\ (\E d \in docs : d.url = url)
       \/ title # <<>> /\ NormalizedTitleLookup(docs, title)

\* insertIfNew(r) of a record with a url and a title (neither is None)
SingleInsertOfRecord ==
    /\ SingleInsert
    /\ call.books[1].url # None
    /\ call.books[1].title # None

\* The title check decided the call: it skipped the record, or let it through
SkippedByTitleCheck == call.outcomes[1].reason \in {"title", "normalized"}

\* C12 as stated: for every store and every incoming record, the sink skips
\* the record exactly when it would with the title check replaced by the
\* lookup "some stored record has the same normalized title".  (Stated for
\* the records the sink skips or inserts: one it skips the lookup skips, one
\* it inserts the lookup lets through.)
C12_Original ==
    SingleInsertOfRecord =>
        /\ (call.outcomes[1].outcome = "skipped") =>
               IndexedIsDuplicate(call.before, call.books[1])
        /\ (call.outcomes[1].outcome = "inserted") =>
               ~IndexedIsDuplicate(call.before, call.books[1])

\* C12 (amended): for every store and every incoming record whose trimmed
\* title is not empty, the title check skips the record exactly when some
\* stored record has the same normalized title, and so does the sink as a
\* whole with the lookup in place of the check; a record whose trimmed title
\* is empty is never skipped by the title check, so the lookup must be made
\* only for a title that is not empty.
C12_IndexedLookupSameDecision ==
    SingleInsertOfRecord =>
        LET r == call.books[1]
        IN /\ (call.outcomes[1].outcome = "skipped")
                 <=> IndexedIsDuplicateOfTitle(call.before, r)
           /\ (~IsBlank(r.title) /\ call.outcomes[1].reason \notin {"missing", "url"}) =>
                 (SkippedByTitleCheck <=> NormalizedTitleLookup(call.before, Strip(r.title)))
           /\ IsBlank(r.title) => ~SkippedByTitleCheck

\* the scan and the lookup both find a stored title that differs in case and
\* whitespace, with a stored empty title passed over by the scan
C12_Witness ==
    /\ SingleInsertOfRecord
    /\ call.outcomes[1] = [outcome |-> "skipped", reason |-> "normalized"]
    /\ NormalizedTitleLookup(call.before, Strip(call.books[1].title))
    /\ \A d \in call.before : d.title # Strip(call.books[1].title)
    /\ \E d \in call.before : d.title = <<>>
    /\ store = call.before

----------------------------------------------------------------------------
(* The run: main() and Library.main() *)

MaxPages == 2

\* The urls and titles of the catalog
UrlB1 == <<"/", "b", "/", "1">>
UrlB2 == <<"/", "b", "/", "2">>
TitleA == <<"A">>
TitleB == <<"B">>
TitleADup == <<"A", "-", "d", "u", "p">>

\* The listing pages of the catalog: no book block; two books; a book listed
\* before under another title; a block without title link, then a book; a
\* title listed before under another url
Listings ==
    { <<>>,
      <<[url |-> UrlB1, title |-> TitleA], [url |-> UrlB2, title |-> TitleB]>>,
      <<[url |-> UrlB1, title |-> TitleADup]>>,
      <<[url |-> <<>>, title |-> <<>>], [url |-> UrlB2, title |-> TitleB]>>,
      <<[url |-> UrlB2, title |-> TitleA]>> }

\* What a request for a listing page comes to: an exception, or data['books']
PageResults ==
    { [ok |-> FALSE, books |-> <<>>] }
    \cup { [ok |-> TRUE, books |-> b] : b \in Listings }

\* What a request for a detail page comes to: an exception ("error"), a page
\* with the book's image and title ("ok"), a page without the bookdetail
\* block ("blank"), a page whose image has no title attribute ("notitle")
DetailOutcomes == {"ok", "error", "blank", "notitle"}

\* What get_all_books_count and get_all_pages_count come to: an exception,
\* None (no number found), or the number
BookCountResults ==
    { [ok |-> FALSE, value |-> NoInt], [ok |-> TRUE, value |-> NoInt] }
    \cup { [ok |-> TRUE, value |-> <<n>>] : n \in {0, 3} }

PageCountResults ==
    { [ok |-> FALSE, value |-> NoInt], [ok |-> TRUE, value |-> NoInt] }
    \cup { [ok |-> TRUE, value |-> <<n>>] : n \in 0..MaxPages }

\* The stores a run may start from
RunStores == { {}, {[url |-> UrlB2, title |-> TitleB]} }

\* The scenario of the spec: two pages, /b/1 again on page 2
ScenarioPages ==
    << <<[url |-> UrlB1, title |-> TitleA], [url |-> UrlB2, title |-> TitleB]>>,
       <<[url |-> UrlB1, title |-> TitleADup]>> >>

\* _ensure_session: a session that is None or closed is replaced
EnsureSession(s) == IF s = "none" \/ s = "closed" THEN "open" ELSE s

\* __aexit__ that forgets to close
AExitSessionLeak(s) == s

\* __aexit__: close the session if there is one
AExitSession(s) == IF s # "none" THEN "closed" ELSE s

\* get_book_info: the book_data of a detail page, its url the requested one
GetBookInfo(book, outcome) ==
    [url |-> book.url,
     title |-> CASE outcome = "ok" -> book.title
                 [] outcome = "blank" -> <<>>
                 [] OTHER -> None]

\* The position after the last book of a page, an empty page or a page that
\* raised: the next page of range(1, total_pages + 1), or the end of the loop
NextPage(p, n) ==
    IF p < n THEN [pc |-> "FetchingPage", page |-> p + 1]
    ELSE [pc |-> "Finalizing", page |-> p]

\* A page handler that lets the exception out of the loop
OnPageErrorAbort(p, n) == [pc |-> "Exiting", page |-> p]

\* except Exception as page_e: log and continue
OnPageError(p, n) == NextPage(p, n)

\* A summary with success and errors taken from the wrong counters
RunSummarySwapped(books, count, errors, success) ==
    [books |-> books, count |-> count, errors |-> success, success |-> errors]

\* all_books.model_dump() after the three assignments at the end of the run
RunSummary(books, count, errors, success) ==
    [books |-> books, count |-> count, errors |-> errors, success |-> success]

RunInit ==
    /\ store0 \in RunStores
    /\ store = store0
    /\ call = NoCall
    /\ RunIdle
    /\ on_scenario = (store0 = {})

\* async with Library() as lib: __aenter__ opens the session
AEnter ==
    /\ pc = "Init"
    /\ pc' = "CountingBooks"
    /\ session' = "open"
    /\ UNCHANGED <<store, call, total_books, total_pages, page, data, idx,
                   book_counter, book_errors, book_success, all_books, dump,
                   attempted, failed_pages, detail_fetches, db_totals, last,
                   interrupted, iterating, store0, on_scenario>>

\* total_books = await self.get_all_books_count()
GetAllBooksCount(res) ==
    /\ pc = "CountingBooks"
    /\ session' = EnsureSession(session)
    /\ IF res.ok
       THEN /\ pc' = "CountingPages"
            /\ total_books' = res.value
            /\ UNCHANGED on_scenario
       ELSE /\ pc' = "Exiting"
            /\ on_scenario' = FALSE
            /\ UNCHANGED total_books
    /\ UNCHANGED <<store, call, total_pages, page, data, idx, book_counter,
                   book_errors, book_success, all_books, dump, attempted,
                   failed_pages, detail_fetches, db_totals, last, interrupted,
                   iterating, store0>>

\* total_pages = await self.get_all_pages_count()
GetAllPagesCount(res) ==
    /\ pc = "CountingPages"
    /\ session' = EnsureSession(session)
    /\ IF res.ok
       THEN /\ pc' = "Connecting"
            /\ total_pages' = res.value
            /\ on_scenario' = (on_scenario /\ res.value = <<Len(ScenarioPages)>>)
       ELSE /\ pc' = "Exiting"
            /\ on_scenario' = FALSE
            /\ UNCHANGED total_pages
    /\ UNCHANGED <<store, call, total_books, page, data, idx, book_counter,
                   book_errors, book_success, all_books, dump, attempted,
                   failed_pages, detail_fetches, db_totals, last, interrupted,
                   iterating, store0>>

\* From the counts to the page loop: the counters are reset, the
\* DatabaseConnector is built (connect may raise) and range(1, total_pages + 1)
\* is evaluated (None + 1 raises TypeError)
StartIteration(connected) ==
    /\ pc = "Connecting"
    /\ IF ~connected \/ total_pages = NoInt
       THEN /\ pc' = "Exiting"
            /\ on_scenario' = FALSE
            /\ UNCHANGED <<page, iterating>>
       ELSE /\ iterating' = TRUE
            /\ pc' = NextPage(0, total_pages[1]).pc
            /\ page' = NextPage(0, total_pages[1]).page
            /\ UNCHANGED on_scenario
    /\ UNCHANGED <<store, call, session, total_books, total_pages, data, idx,
                   book_counter, book_errors, book_success, all_books, dump,
                   attempted, failed_pages, detail_fetches, db_totals, last,
                   interrupted, store0>>

\* data = await self.get_books_in_page(page), up to the first book of the page
GetBooksInPage(res) ==
    /\ pc = "FetchingPage"
    /\ session' = EnsureSession(session)
    /\ attempted' = Append(attempted, page)
    /\ on_scenario' = (/\ on_scenario
                       /\ page <= Len(ScenarioPages)
                       /\ res.ok
                       /\ res.books = ScenarioPages[page])
    /\ IF ~res.ok
       THEN /\ failed_pages' = failed_pages \cup {page}
            /\ pc' = OnPageError(page, total_pages[1]).pc
            /\ page' = OnPageError(page, total_pages[1]).page
            /\ UNCHANGED <<data, idx>>
       ELSE /\ UNCHANGED failed_pages
            /\ IF res.books = <<>>
               THEN /\ pc' = NextPage(page, total_pages[1]).pc
                    /\ page' = NextPage(page, total_pages[1]).page
                    /\ UNCHANGED <<data, idx>>
               ELSE /\ pc' = "IteratingBooks"
                    /\ data' = res.books
                    /\ idx' = 1
                    /\ UNCHANGED page
    /\ UNCHANGED <<store, call, total_books, total_pages, book_counter,
                   book_errors, book_success, all_books, dump, detail_fetches,
                   db_totals, last, interrupted, iterating, store0>>

\* The counters when a book without url is not counted
CountBookMissingUrlUncounted(kind, errors, success) ==
    IF kind = "detail_error"
    THEN [errors |-> errors + 1, success |-> success]
    ELSE IF kind = "nourl"
    THEN [errors |-> errors, success |-> success]
    ELSE [errors |-> errors, success |-> success + 1]

\* The counters when book_success is incremented before the detail request
CountBookSuccessBeforeFetch(kind, errors, success) ==
    IF kind = "nourl"
    THEN [errors |-> errors + 1, success |-> success]
    ELSE IF kind = "detail_error"
    THEN [errors |-> errors + 1, success |-> success + 1]
    ELSE [errors |-> errors, success |-> success + 1]

\* book_errors and book_success after one book: a book without url and a
\* detail request that raised are errors; a book whose detail page was read
\* is a success, whatever load_books_from_data then reports
CountBook(kind, errors, success) ==
    IF kind \in {"nourl", "detail_error"}
    THEN [errors |-> errors + 1, success |-> success]
    ELSE [errors |-> errors, success |-> success + 1]

\* A book loop that does not test the url of the summary entry
BookKindUrlUnchecked(book, outcome) ==
    IF outcome = "error" THEN "detail_error" ELSE "fetched"

\* What one book of the page comes to in the loop body: "nourl" for
\* `if not book.get('url')`, "detail_error" when get_book_info raises,
\* "fetched" when it returns
BookKind(book, outcome) ==
    IF book.url = <<>> THEN "nourl"
    ELSE IF outcome = "error" THEN "detail_error"
    ELSE "fetched"

\* The position after book idx of the page
AfterBook ==
    IF idx < Len(data)
    THEN [pc |-> "IteratingBooks", page |-> page, idx |-> idx + 1]
    ELSE [pc |-> NextPage(page, total_pages[1]).pc,
          page |-> NextPage(page, total_pages[1]).page, idx |-> idx]

\* One iteration of `for book in data['books']`
ProcessBook(outcome) ==
    LET book == data[idx]
        before == [errors |-> book_errors, success |-> book_success]
        kind == BookKind(book, outcome)
    IN
    /\ pc = "IteratingBooks"
    /\ book_counter' = book_counter + 1
    /\ pc' = AfterBook.pc
    /\ page' = AfterBook.page
    /\ idx' = AfterBook.idx
    /\ book_errors' = CountBook(kind, book_errors, book_success).errors
    /\ book_success' = CountBook(kind, book_errors, book_success).success
    /\ IF kind = "nourl"
       THEN \* if not book.get('url'): book_errors += 1; continue
            /\ last' = [kind |-> "nourl"] @@ before
            /\ on_scenario' = FALSE
            /\ UNCHANGED <<store, call, session, all_books, detail_fetches,
                           db_totals>>
       ELSE /\ session' = EnsureSession(session)
            /\ detail_fetches' = detail_fetches + 1
            /\ on_scenario' = (on_scenario /\ outcome = "ok")
            /\ IF kind = "detail_error"
               THEN \* get_book_info raised: except Exception as e
                    /\ last' = [kind |-> "detail_error"] @@ before
                    /\ UNCHANGED <<store, call, all_books, db_totals>>
               ELSE \E book_data \in {GetBookInfo(book, outcome)} :
                    \E done \in {LoadBooksFromData(store, <<book_data>>)} :
                       /\ all_books' = Append(all_books, book_data)
                       /\ store' = done.docs
                       /\ call' = CallRecord("data", <<book_data>>, done, store)
                       /\ db_totals' =
                            [loaded |-> db_totals.loaded + done.result.loaded,
                             errors |-> db_totals.errors + done.result.errors,
                             skipped |-> db_totals.skipped + done.result.skipped]
                       /\ last' = [kind |-> done.outcomes[1].outcome] @@ before
    /\ UNCHANGED <<total_books, total_pages, data, dump, attempted,
                   failed_pages, interrupted, iterating, store0>>

\* After the loop: the counters go into all_books and the dump is written
Finalize ==
    /\ pc = "Finalizing"
    /\ dump' = Append(dump, RunSummary(all_books, total_books,
                                       book_errors, book_success))
    /\ pc' = "Exiting"
    /\ UNCHANGED <<store, call, session, total_books, total_pages, page, data,
                   idx, book_counter, book_errors, book_success, all_books,
                   attempted, failed_pages, detail_fetches, db_totals, last,
                   interrupted, iterating, store0, on_scenario>>

\* The run is cancelled while lib.main() awaits or runs
Interrupt ==
    /\ pc \in {"CountingBooks", "CountingPages", "Connecting", "FetchingPage",
               "IteratingBooks", "Finalizing"}
    /\ pc' = "Exiting"
    /\ interrupted' = TRUE
    /\ on_scenario' = FALSE
    /\ UNCHANGED <<store, call, session, total_books, total_pages, page, data,
                   idx, book_counter, book_errors, book_success, all_books,
                   dump, attempted, failed_pages, detail_fetches, db_totals,
                   last, iterating, store0>>

\* The run is cancelled while the book loop awaits get_book_info: the book
\* was counted by book_counter and its detail page requested, and neither
\* book_success nor book_errors was reached (the handler catches Exception,
\* which a cancellation is not)
InterruptBook ==
    /\ pc = "IteratingBooks"
    /\ BookKind(data[idx], "ok") # "nourl"
    /\ book_counter' = book_counter + 1
    /\ session' = EnsureSession(session)
    /\ detail_fetches' = detail_fetches + 1
    /\ pc' = "Exiting"
    /\ interrupted' = TRUE
    /\ on_scenario' = FALSE
    /\ UNCHANGED <<store, call, total_books, total_pages, page, data, idx,
                   book_errors, book_success, all_books, dump, attempted,
                   failed_pages, db_totals, last, iterating, store0>>

\* Leaving `async with Library() as lib`: __aexit__
AExit ==
    /\ pc = "Exiting"
    /\ session' = AExitSession(session)
    /\ pc' = "Done"
    /\ UNCHANGED <<store, call, total_books, total_pages, page, data, idx,
                   book_counter, book_errors, book_success, all_books, dump,
                   attempted, failed_pages, detail_fetches, db_totals, last,
                   interrupted, iterating, store0, on_scenario>>

RunNext ==
    \/ AEnter
    \/ \E res \in BookCountResults : GetAllBooksCount(res)
    \/ \E res \in PageCountResults : GetAllPagesCount(res)
    \/ \E connected \in BOOLEAN : StartIteration(connected)
    \/ \E res \in PageResults : GetBooksInPage(res)
    \/ \E outcome \in DetailOutcomes : ProcessBook(outcome)
    \/ Finalize
    \/ Interrupt
    \/ InterruptBook
    \/ AExit

SpecRun == RunInit /\ [][RunNext]_vars

----------------------------------------------------------------------------
(* Claims about the run (checked under SpecRun) *)

StoredB1 == [url |-> UrlB1, title |-> TitleA]
StoredB2 == [url |-> UrlB2, title |-> TitleB]

\* C4 as stated: the two-page scenario, run from an empty store with no
\* failure, skips the page-2 entry by url and ends with success=2, errors=0,
\* skipped=1.
C4_Original ==
    (pc = "Done" /\ on_scenario) =>
        /\ call.outcomes = <<[outcome |-> "skipped", reason |-> "url"]>>
        /\ book_success = 2
        /\ book_errors = 0
        /\ db_totals.skipped = 1

\* C4 (amended): in that scenario the sink skips the page-2 entry by url: over
\* the run it loaded 2 records, skipped 1 and failed on none, and the store
\* holds /b/1 "A" and /b/2 "B"; the run's own counters end with success=3
\* (every book whose detail page was read), errors=0, and so says the dump.
C4_ScenarioCounts ==
    (pc = "Done" /\ on_scenario) =>
        /\ call.outcomes = <<[outcome |-> "skipped", reason |-> "url"]>>
        /\ call.books = <<[url |-> UrlB1, title |-> TitleADup]>>
        /\ db_totals = [loaded |-> 2, errors |-> 0, skipped |-> 1]
        /\ store = {StoredB1, StoredB2}
        /\ book_success = 3
        /\ book_errors = 0
        /\ Len(dump) = 1 /\ dump[1].success = 3 /\ dump[1].errors = 0

C4_Witness ==
    /\ pc = "Done"
    /\ on_scenario
    /\ attempted = <<1, 2>>
    /\ book_counter = 3

\* A step that walks one book of the page to the end of the loop body
BookStep == book_counter' = book_counter + 1 /\ ~interrupted'

StillIterating(p) == p \in {"IteratingBooks", "FetchingPage", "Finalizing"}

\* the orchestrator goes on with the next book, or past the page's last book
NextBookOrPage ==
    /\ StillIterating(pc')
    /\ (idx < Len(data)) => (pc' = "IteratingBooks" /\ idx' = idx + 1 /\ page' = page)
    /\ (idx = Len(data)) => pc' # "IteratingBooks"

\* C5 as stated: a book without url, a detail request that fails and a store
\* write error during the insert each add one to the run's errors, and the
\* orchestrator goes on with the next book.  (The store write error taken is
\* the one the store itself raises, a violated unique index.)
C5_Original ==
    [][BookStep =>
        /\ NextBookOrPage
        /\ (\/ last'.kind \in {"nourl", "detail_error"}
            \/ /\ last'.kind = "failed"
               /\ call'.outcomes[1].reason = "NotUniqueError") =>
               book_errors' = book_errors + 1]_vars

\* C5 (amended): each of these failures is caught and the orchestrator goes on
\* with the next book; a book without url and a failed detail request add one
\* to the run's errors (and nothing to success); a store write error is
\* counted in the errors of load_books_from_data's own result only, and the
\* book stays a success of the run.
C5_PerBookFailures ==
    [][BookStep =>
        /\ NextBookOrPage
        /\ (last'.kind \in {"nourl", "detail_error"}) =>
               /\ book_errors' = book_errors + 1
               /\ book_success' = book_success
               /\ store' = store
        /\ (last'.kind = "failed") =>
               /\ book_errors' = book_errors
               /\ book_success' = book_success + 1
               /\ call'.result.errors = 1
               /\ db_totals'.errors = db_totals.errors + 1
               /\ store' = store]_vars

\* a store write error, after which the next book of the page is walked
C5_Witness ==
    /\ last.kind = "failed"
    /\ call.outcomes = <<[outcome |-> "failed", reason |-> "NotUniqueError"]>>
    /\ pc = "IteratingBooks"
    /\ idx = 2
    /\ book_errors = last.errors
    /\ book_success = last.success + 1

\* C11: a summary entry whose url is empty is rejected by the book loop: it
\* adds one to errors and nothing to success or to the summary's books list,
\* no detail page is requested and no load into the store is called for it.
C11_BookWithoutUrlRejected ==
    [][(BookStep /\ data[idx].url = <<>>) =>
        /\ last'.kind = "nourl"
        /\ book_errors' = book_errors + 1
        /\ book_success' = book_success
        /\ all_books' = all_books
        /\ detail_fetches' = detail_fetches
        /\ store' = store
        /\ call' = call
        /\ db_totals' = db_totals]_vars

\* an entry without url was rejected after a book was read and stored, and
\* the next entry of the page is up
C11_Witness ==
    /\ last.kind = "nourl"
    /\ data[idx - 1].url = <<>>
    /\ pc = "IteratingBooks"
    /\ book_errors = last.errors + 1
    /\ book_success = last.success
    /\ last.success >= 1
    /\ Len(all_books) = book_success
    /\ store # store0

CountsFetched == pc \notin {"Init", "CountingBooks", "CountingPages"}

\* C6: if the total book count or the total page count is not an integer, the
\* run aborts: the page loop is not entered, no listing or detail page is
\* requested and nothing is inserted.
C6_AbortWithoutCounts ==
    (CountsFetched /\ (total_books = NoInt \/ total_pages = NoInt)) =>
        /\ pc \notin {"FetchingPage", "IteratingBooks"}
        /\ attempted = <<>>
        /\ detail_fetches = 0
        /\ store = store0

\* C7: the listing pages are requested in the order 1, 2, ... once each; a
\* page that raises is followed by the next page, and a run that is not
\* cancelled ends only after every page of 1..total_pages was requested and
\* the summary was written.
C7_PagesAttemptedInOrder ==
    /\ \A i \in 1..Len(attempted) : attempted[i] = i
    /\ failed_pages \subseteq 1..Len(attempted)
    /\ iterating => Len(attempted) <= total_pages[1]
    /\ (pc = "FetchingPage") => (page = Len(attempted) + 1 /\ page <= total_pages[1])
    /\ (pc = "IteratingBooks") => page = Len(attempted)
    /\ (iterating /\ pc = "Finalizing") => Len(attempted) = total_pages[1]
    /\ (iterating /\ ~interrupted /\ pc \in {"Exiting", "Done"}) =>
           (Len(attempted) = total_pages[1] /\ Len(dump) = 1)

\* page 1 raised, page 2 was walked, the run finished
C7_Witness ==
    /\ pc = "Done"
    /\ ~interrupted
    /\ failed_pages = {1}
    /\ attempted = <<1, 2>>
    /\ book_success >= 1
    /\ Len(dump) = 1

\* C8: when the run has ended, however it ended, the session it opened is
\* closed; until then it is open.
C8_SessionClosedAtEnd ==
    /\ (pc = "Done") => session = "closed"
    /\ (pc \notin {"Init", "Done"}) => session = "open"

\* a cancelled run, ended with its session closed
C8_Witness ==
    /\ pc = "Done"
    /\ interrupted
    /\ iterating
    /\ session = "closed"

\* C13: between two books of the iteration, at its end and in the summary
\* written, success + errors is the number of summary entries walked
\* (book_counter) and the summary's books list has success entries; a run
\* cancelled inside a book's detail request has counted that one entry and
\* given it neither outcome, and writes no summary.
C13_EachBookCountedOnce ==
    /\ Len(all_books) = book_success
    /\ ~interrupted => book_success + book_errors = book_counter
    /\ interrupted => /\ book_success + book_errors <= book_counter
                      /\ book_counter <= book_success + book_errors + 1
                      /\ dump = <<>>
    /\ (pc = "IteratingBooks") => book_success + book_errors = book_counter
    /\ \A i \in 1..Len(dump) :
          /\ dump[i].success + dump[i].errors = book_counter
          /\ Len(dump[i].books) = dump[i].success

\* a finished run over three entries: one without url, two read, of which the
\* sink loaded at most one
C13_Witness ==
    /\ pc = "Done"
    /\ ~interrupted
    /\ book_counter = 3
    /\ Len(dump) = 1
    /\ dump[1].errors = 1
    /\ dump[1].success = 2
    /\ Len(dump[1].books) = 2
    /\ db_totals.loaded <= 1

\* C9: a run that entered the page loop and is not cancelled ends with the
\* summary written exactly once, whatever failed on the way; the summary's
\* count is the advertised total and its errors and success are the run's
\* counters.
C9_SummaryWrittenOnce ==
    /\ Len(dump) <= 1
    /\ (iterating /\ ~interrupted /\ pc \in {"Exiting", "Done"}) => Len(dump) = 1
    /\ (Len(dump) = 1) =>
           /\ pc \in {"Exiting", "Done"}
           /\ dump[1].count = total_books
           /\ dump[1].errors = book_errors
           /\ dump[1].success = book_success
           /\ dump[1].books = all_books

\* a finished run with a failed page, a failed book and a read book
C9_Witness ==
    /\ pc = "Done"
    /\ Len(dump) = 1
    /\ failed_pages # {}
    /\ dump[1].errors >= 1
    /\ dump[1].success >= 1

====
